---- MODULE Spec2Model ----
(***************************************************************************)
(* Model of the postgres job lock of ttab/elephantine (package pg):        *)
(* JobLock (NewJobLock, Stop, run, RunWithContext, loop, attemptAcquire,   *)
(* acquire, steal, release, ping) and the job_lock queries it issues.      *)
(* Every JobLock instance lives in a process of its own; all instances     *)
(* use the same lock name and the same store.                              *)
(***************************************************************************)
EXTENDS Integers, Sequences, FiniteSets, TLC

(* ------------------------------ bounds --------------------------------- *)
\* the clock runs from 0 to MaxTime
MaxTime == 4

\* the options tried on NewJobLock are 0, 5, ... MaxDuration * 5 seconds
MaxDuration == 4

(* --------------------------- configuration ----------------------------- *)
\* JobLockOptions as accepted by NewJobLock: timeout < pingInterval < staleAfter
pingInterval == 2
staleAfter == 3
checkInterval == 1
timeout == 1

\* the JobLock instances (identities), the RunWithContext calls made on an
\* instance and the callers of the exported Stop
Inst == {"a", "b"}
Callers == {1, 2}
Stoppers == {1, 2}

None == "none"

\* JobLockState
JobLockStateNone == ""
JobLockStateHeld == "held"
JobLockStateLost == "lost"
JobLockStateReleased == "released"

VARIABLES
    job,          \* RunInJobLock: its position, context, lock and result
    made,         \* NewJobLock: the options passed and what it returned
    now,          \* wall clock
    table,        \* the committed rows of job_lock for the name
    lockOwner,    \* instance whose transaction holds the row / key lock
    pending,      \* the rows as lockOwner's open transaction has written them
    state,        \* jl.state
    lastPing,     \* jl.lastPing
    iteration,    \* jl.iteration
    out,          \* jl.out: buffered content (capacity 1)
    outClosed,    \* jl.out closed
    abort,        \* jl.abort closed
    cleanedUp,    \* jl.cleanedUp closed
    once,         \* jl.once used
    loopPc,       \* position of the goroutine running jl.loop
    nextState,    \* loop: nextState
    wait,         \* loop: instant at which the wait timer fires
    read,         \* acquire: the row returned by GetJobLock
    change,       \* attemptAcquire: the acquireChange in hand
    mainPc,       \* RunWithContext: position of the calling goroutine
    consPc,       \* RunWithContext: position of the watching goroutine
    runPc,        \* RunWithContext: position of the goroutine calling jl.run
    waitDone,     \* RunWithContext: waitCtx is done
    acquiredLock, \* RunWithContext: acquiredLock closed
    result,       \* RunWithContext: the returned value
    stopPc,       \* exported Stop: position of the caller
    stopWait,     \* Stop: instant at which time.After(jl.timeout) fires
    consWait,     \* the same for the Stop deferred by the watching goroutine
    crashed,      \* the process of the instance died of a panic
    hist          \* history of the instance (not program state)

storeVars == <<table, lockOwner, pending>>
lockVars == <<state, lastPing, iteration, once>>
chanVars == <<out, outClosed, abort, cleanedUp>>
loopVars == <<loopPc, nextState, wait, read, change>>
runVars == <<mainPc, consPc, runPc, waitDone, acquiredLock, result>>
stopVars == <<stopPc, stopWait, consWait>>
vars == <<job, made, now, storeVars, lockVars, chanVars, loopVars, runVars, stopVars,
          crashed, hist>>

(* ------------------------------ the store ------------------------------ *)
\* pgx.ErrNoRows
NoRow == [holder |-> None, touched |-> 0, iteration |-> 0]

\* SELECT holder, touched, iteration FROM job_lock WHERE name = $1 FOR UPDATE
GetJobLock(t) == IF t = {} THEN NoRow ELSE CHOOSE r \in t : TRUE

\* (a table without the primary key)
noPkey(t) == FALSE

\* the primary key of job_lock: an insert for a name that has a row fails
\* with a job_lock_pkey constraint error
pkeyViolation(t) == t # {}

\* (an insert that starts the iteration at 0)
InsertAtZero(t, holder, at) ==
    t \cup {[holder |-> holder, touched |-> at, iteration |-> 0]}

\* INSERT INTO job_lock(name, holder, touched, iteration)
\* VALUES (@name, @holder, now(), 1) RETURNING iteration
InsertJobLock(t, holder, at) ==
    t \cup {[holder |-> holder, touched |-> at, iteration |-> 1]}

\* (a ping guarded by the holder alone)
PingAnyIteration(r, holder, iter) == r.holder = holder

\* WHERE name = @name AND holder = @holder AND iteration = @iteration
PingMatch(r, holder, iter) == r.holder = holder /\ r.iteration = iter

\* (a ping that renews touched and leaves the iteration as it is)
PingKeepsIteration(t, holder, iter, at) ==
    {IF PingMatch(r, holder, iter)
     THEN [r EXCEPT !.touched = at]
     ELSE r : r \in t}

\* UPDATE job_lock SET touched = now(), iteration = iteration + 1 WHERE ...
PingJobLock(t, holder, iter, at) ==
    {IF PingMatch(r, holder, iter)
     THEN [r EXCEPT !.touched = at, !.iteration = @ + 1]
     ELSE r : r \in t}

\* WHERE name = @name AND holder = @previous_holder AND iteration = @iteration
StealMatch(r, previousHolder, iter) ==
    r.holder = previousHolder /\ r.iteration = iter

\* (a steal that leaves the touched time as it was)
StealKeepsTouched(t, newHolder, previousHolder, iter, at) ==
    {IF StealMatch(r, previousHolder, iter)
     THEN [holder |-> newHolder, touched |-> r.touched,
           iteration |-> r.iteration + 1]
     ELSE r : r \in t}

\* (a steal that counts the iteration down)
StealLowers(t, newHolder, previousHolder, iter, at) ==
    {IF StealMatch(r, previousHolder, iter)
     THEN [holder |-> newHolder, touched |-> at, iteration |-> r.iteration - 1]
     ELSE r : r \in t}

\* (a steal that leaves the holder as it was)
StealKeepsHolder(t, newHolder, previousHolder, iter, at) ==
    {IF StealMatch(r, previousHolder, iter)
     THEN [r EXCEPT !.touched = at, !.iteration = @ + 1]
     ELSE r : r \in t}

\* UPDATE job_lock SET holder = @new_holder, touched = now(),
\*   iteration = iteration + 1 WHERE ...
StealJobLock(t, newHolder, previousHolder, iter, at) ==
    {IF StealMatch(r, previousHolder, iter)
     THEN [holder |-> newHolder, touched |-> at, iteration |-> r.iteration + 1]
     ELSE r : r \in t}

\* (a delete that names the row by name only)
ReleaseAnyHolder(r, holder) == TRUE

\* WHERE name = @name AND holder = @holder
ReleaseMatch(r, holder) == r.holder = holder

\* DELETE FROM job_lock WHERE ...
ReleaseJobLock(t, holder) == {r \in t : ~ReleaseMatch(r, holder)}

\* the affected-rows count of :execrows for the three guarded statements
PingRows(t, holder, iter) ==
    Cardinality({r \in t : PingMatch(r, holder, iter)})

StealRows(t, previousHolder, iter) ==
    Cardinality({r \in t : StealMatch(r, previousHolder, iter)})

(* ------------------------------ helpers -------------------------------- *)
\* acquireChange{}
NoChange == [Ok |-> FALSE, Ping |-> 0, Iteration |-> 0]

\* time.Since(t)
Since(t) == now - t

\* (a lock that counts as stale whatever its touched time)
isFreshNever(r) == FALSE

\* (a lock that is taken over before it is stale)
isFreshEarly(r) == Since(r.touched) < pingInterval

\* acquire: time.Since(state.Touched.Time) < jl.staleAfter
isFresh(r) == Since(r.touched) < staleAfter

\* a goroutine of the instance's process can take a step
Alive(i) == ~crashed[i]

\* the history kept per instance
\*   loops: loops started, aborts: closes of jl.abort, releases: release
\*   deletes issued, written: the touched value the instance last wrote,
\*   err: the last store operation returned an error, invoked: calls of fn
\*   per RunWithContext call, left: the calls whose fn was running when the
\*   state left held, stopHeld: Stop was called with the lock held and a fn
\*   running
NoHist == [loops |-> 0, aborts |-> 0, releases |-> 0, written |-> -1,
           err |-> FALSE, invoked |-> [c \in Callers |-> 0], left |-> {},
           stopHeld |-> FALSE]

\* outcomes of a store operation as the client sees them: it succeeded, it
\* failed without effect, or it failed (timeout, broken connection) after the
\* store had applied it
Outcomes == {"ok", "err", "errApplied"}

(* ----------------------------- NewJobLock ------------------------------ *)
\* NewJobLock: opts.PingInterval = 10 * time.Second, in seconds
DefaultPingInterval == 10

\* the values tried for an option, in seconds; 0 is the zero value
Durations == {5 * k : k \in 0..MaxDuration}

\* JobLockOptions
JobLockOptions ==
    [PingInterval : Durations, StaleAfter : Durations,
     CheckInterval : Durations, Timeout : Durations]

\* NewJobLock returns nil and an error
NoLock == [err |-> TRUE, state |-> "nil", pingInterval |-> 0,
           staleAfter |-> 0, checkInterval |-> 0, timeout |-> 0]

\* NewJobLock has not been called yet
NotCalled == [err |-> FALSE, state |-> "nil", pingInterval |-> 0,
              staleAfter |-> 0, checkInterval |-> 0, timeout |-> 0]

\* RunInJobLock has not been called
\*   pc: its position, ctx: its context is done, lock: the identity of the
\*   JobLock in use, used: the identities made so far, made: what the last
\*   NewJobLock returned, err: what the last RunWithContext returned,
\*   result: what RunInJobLock returned
NoJob == [pc |-> "idle", ctx |-> FALSE, lock |-> None, used |-> {},
          made |-> NotCalled, err |-> "none", result |-> "none"]

\* NewJobLock: the zero-valued options replaced by their defaults
withDefaults(opts) ==
    LET ping == IF opts.PingInterval = 0 THEN DefaultPingInterval
                ELSE opts.PingInterval
    IN [PingInterval |-> ping,
        StaleAfter |-> IF opts.StaleAfter = 0 THEN ping * 4
                       ELSE opts.StaleAfter,
        CheckInterval |-> IF opts.CheckInterval = 0 THEN ping * 2
                          ELSE opts.CheckInterval,
        Timeout |-> IF opts.Timeout = 0 THEN ping \div 2 ELSE opts.Timeout]

\* (a validation that accepts a stale time equal to the ping interval)
validOptionsLax(o) ==
    ~(o.PingInterval > o.StaleAfter) /\ ~(o.Timeout >= o.PingInterval)

\* NewJobLock: neither of the two option errors is returned
validOptions(o) ==
    ~(o.PingInterval >= o.StaleAfter) /\ ~(o.Timeout >= o.PingInterval)

\* NewJobLock(db, logger, name, opts); hostname tells whether os.Hostname
\* succeeds
NewJobLock(opts, hostname) ==
    LET o == withDefaults(opts)
    IN IF ~validOptions(o) \/ ~hostname THEN NoLock
       ELSE [err |-> FALSE, state |-> JobLockStateNone,
             pingInterval |-> o.PingInterval, staleAfter |-> o.StaleAfter,
             checkInterval |-> o.CheckInterval, timeout |-> o.Timeout]

\* the options of the instances of this model, in its time unit
Options == [PingInterval |-> pingInterval, StaleAfter |-> staleAfter,
            CheckInterval |-> checkInterval, Timeout |-> timeout]

(* ------------------------------- Init ---------------------------------- *)
\* the state after NewJobLock has built every instance; no row exists yet
Init ==
    /\ job = NoJob
    /\ made = [opts |-> Options, hostname |-> TRUE,
               lock |-> NewJobLock(Options, TRUE)]
    /\ now = 0
    /\ table = {}
    /\ lockOwner = None
    /\ pending = {}
    /\ state = [i \in Inst |-> JobLockStateNone]
    /\ lastPing = [i \in Inst |-> 0]
    /\ iteration = [i \in Inst |-> 0]
    /\ once = [i \in Inst |-> FALSE]
    /\ out = [i \in Inst |-> << >>]
    /\ outClosed = [i \in Inst |-> FALSE]
    /\ abort = [i \in Inst |-> FALSE]
    /\ cleanedUp = [i \in Inst |-> FALSE]
    /\ loopPc = [i \in Inst |-> "idle"]
    /\ nextState = [i \in Inst |-> JobLockStateNone]
    /\ wait = [i \in Inst |-> 0]
    /\ read = [i \in Inst |-> NoRow]
    /\ change = [i \in Inst |-> NoChange]
    /\ mainPc = [i \in Inst |-> [c \in Callers |-> "idle"]]
    /\ consPc = [i \in Inst |-> [c \in Callers |-> "idle"]]
    /\ runPc = [i \in Inst |-> [c \in Callers |-> "idle"]]
    /\ waitDone = [i \in Inst |-> [c \in Callers |-> FALSE]]
    /\ acquiredLock = [i \in Inst |-> [c \in Callers |-> FALSE]]
    /\ result = [i \in Inst |-> [c \in Callers |-> "none"]]
    /\ stopPc = [i \in Inst |-> [s \in Stoppers |-> "idle"]]
    /\ stopWait = [i \in Inst |-> [s \in Stoppers |-> 0]]
    /\ consWait = [i \in Inst |-> [c \in Callers |-> 0]]
    /\ crashed = [i \in Inst |-> FALSE]
    /\ hist = [i \in Inst |-> NoHist]

(* ------------------------------ the clock ------------------------------ *)
Tick ==
    /\ now < MaxTime
    /\ now' = now + 1
    /\ UNCHANGED <<job, made, storeVars, lockVars, chanVars, loopVars, runVars, stopVars,
                   crashed, hist>>

(* ------------------------ the background loop -------------------------- *)
\* the rollback deferred by attemptAcquire: the transaction's locks go
Rollback(i) ==
    /\ lockOwner' = IF lockOwner = i THEN None ELSE lockOwner
    /\ pending' = IF lockOwner = i THEN {} ELSE pending

\* (a loop that puts a state change in the place of an undrained one)
notifyOverwrites(i, next, ping) ==
    /\ nextState' = [nextState EXCEPT ![i] = next]
    /\ state' = [state EXCEPT ![i] = next]
    /\ out' = IF next # state[i] THEN [out EXCEPT ![i] = <<next>>] ELSE out
    /\ IF next = JobLockStateLost
       THEN /\ loopPc' = [loopPc EXCEPT ![i] = "release"]
            /\ UNCHANGED wait
       ELSE /\ loopPc' = [loopPc EXCEPT ![i] = "wait"]
            /\ wait' = [wait EXCEPT ![i] =
                   IF next = JobLockStateHeld
                   THEN ping + pingInterval
                   ELSE now + checkInterval]

\* (a loop that goes on after a failed offer)
notifyGoesOn(i, next, ping) ==
    /\ nextState' = [nextState EXCEPT ![i] = next]
    /\ state' = [state EXCEPT ![i] = next]
    /\ out' = IF next # state[i] /\ Len(out[i]) = 0
              THEN [out EXCEPT ![i] = <<next>>] ELSE out
    /\ IF next = JobLockStateLost /\ Len(out[i]) = 0
       THEN /\ loopPc' = [loopPc EXCEPT ![i] = "release"]
            /\ UNCHANGED wait
       ELSE /\ loopPc' = [loopPc EXCEPT ![i] = "wait"]
            /\ wait' = [wait EXCEPT ![i] = now + checkInterval]

\* loop, after the switch on jl.state: with nextState next and jl.lastPing
\* ping, publish a state change on jl.out (returning when the buffer is
\* full), return when the state is lost, else set the wait timer
notify(i, next, ping) ==
    /\ nextState' = [nextState EXCEPT ![i] = next]
    /\ state' = [state EXCEPT ![i] = next]
    /\ IF next # state[i] /\ Len(out[i]) >= 1
       THEN /\ loopPc' = [loopPc EXCEPT ![i] = "release"]
            /\ UNCHANGED <<out, wait>>
       ELSE /\ out' = IF next # state[i] THEN [out EXCEPT ![i] = <<next>>]
                      ELSE out
            /\ IF next = JobLockStateLost
               THEN /\ loopPc' = [loopPc EXCEPT ![i] = "release"]
                    /\ UNCHANGED wait
               ELSE /\ loopPc' = [loopPc EXCEPT ![i] = "wait"]
                    /\ wait' = [wait EXCEPT ![i] =
                           IF next = JobLockStateHeld
                           THEN ping + pingInterval
                           ELSE now + checkInterval]

\* (an attempt whose store error is taken for the loss of the lock)
notAcquiredFatal(i, failed) ==
    /\ Rollback(i)
    /\ read' = [read EXCEPT ![i] = NoRow]
    /\ change' = [change EXCEPT ![i] = NoChange]
    /\ hist' = [hist EXCEPT ![i].err = failed]
    /\ notify(i, IF failed THEN JobLockStateLost ELSE nextState[i],
              lastPing[i])
    /\ UNCHANGED <<lastPing, iteration>>

\* attemptAcquire returns acquireChange{}: the transaction is rolled back
\* and loop goes on with nextState as it was; failed tells whether an error
\* was returned by the store
notAcquired(i, failed) ==
    /\ Rollback(i)
    /\ read' = [read EXCEPT ![i] = NoRow]
    /\ change' = [change EXCEPT ![i] = NoChange]
    /\ hist' = [hist EXCEPT ![i].err = failed]
    /\ notify(i, nextState[i], lastPing[i])
    /\ UNCHANGED <<lastPing, iteration>>

\* loop, case JobLockStateNone: attemptAcquire begins a transaction and
\* acquire reads the row FOR UPDATE and tests it for staleness
attemptAcquire(i) ==
    /\ Alive(i) /\ loopPc[i] = "top" /\ state[i] = JobLockStateNone
    /\ \E e \in {"ok", "err"} :
        \/ /\ e = "err"                 \* Begin or GetJobLock failed
           /\ notAcquired(i, TRUE)
        \/ /\ e = "ok" /\ GetJobLock(table) = NoRow   \* not held
           /\ loopPc' = [loopPc EXCEPT ![i] = "insert"]
           /\ hist' = [hist EXCEPT ![i].err = FALSE]
           /\ UNCHANGED <<lockOwner, pending, read, change, state, nextState,
                          out, wait, lastPing, iteration>>
        \/ /\ e = "ok" /\ GetJobLock(table) # NoRow /\ lockOwner = None
           /\ IF isFresh(GetJobLock(table))
              THEN notAcquired(i, FALSE)
              ELSE /\ lockOwner' = i
                   /\ pending' = table
                   /\ read' = [read EXCEPT ![i] = GetJobLock(table)]
                   /\ loopPc' = [loopPc EXCEPT ![i] = "steal"]
                   /\ hist' = [hist EXCEPT ![i].err = FALSE]
                   /\ UNCHANGED <<change, state, nextState, out, wait,
                                  lastPing, iteration>>
    /\ UNCHANGED <<job, made, now, table, once, outClosed, abort, cleanedUp, runVars,
                   stopVars, crashed>>

\* acquire: InsertJobLock when no row was found
acquire(i) ==
    /\ Alive(i) /\ loopPc[i] = "insert"
    /\ \E e \in {"ok", "err"} :
        \/ /\ e = "err"
           /\ notAcquired(i, TRUE)
        \/ /\ e = "ok" /\ lockOwner = None /\ pkeyViolation(table)
           /\ notAcquired(i, FALSE)
        \/ /\ e = "ok" /\ lockOwner = None /\ ~pkeyViolation(table)
           /\ pending' = InsertJobLock(table, i, now)
           /\ lockOwner' = i
           /\ change' = [change EXCEPT ![i] =
                  [Ok |-> TRUE, Ping |-> now, Iteration |-> 1]]
           /\ loopPc' = [loopPc EXCEPT ![i] = "commit"]
           /\ hist' = [hist EXCEPT ![i].err = FALSE]
           /\ UNCHANGED <<read, state, nextState, out, wait, lastPing,
                          iteration>>
    /\ UNCHANGED <<job, made, now, table, once, outClosed, abort, cleanedUp, runVars,
                   stopVars, crashed>>

\* steal: StealJobLock guarded by the holder and iteration that were read
steal(i) ==
    /\ Alive(i) /\ loopPc[i] = "steal"
    /\ \E e \in {"ok", "err"} :
        \/ /\ e = "err"
           /\ notAcquired(i, TRUE)
        \/ /\ e = "ok"
           /\ StealRows(pending, read[i].holder, read[i].iteration) = 0
           /\ notAcquired(i, TRUE)      \* out of sync
        \/ /\ e = "ok"
           /\ StealRows(pending, read[i].holder, read[i].iteration) # 0
           /\ pending' = StealJobLock(pending, i, read[i].holder,
                                      read[i].iteration, now)
           /\ change' = [change EXCEPT ![i] =
                  [Ok |-> TRUE, Ping |-> now,
                   Iteration |-> read[i].iteration + 1]]
           /\ read' = [read EXCEPT ![i] = NoRow]
           /\ loopPc' = [loopPc EXCEPT ![i] = "commit"]
           /\ hist' = [hist EXCEPT ![i].err = FALSE]
           /\ UNCHANGED <<lockOwner, state, nextState, out, wait, lastPing,
                          iteration>>
    /\ UNCHANGED <<job, made, now, table, once, outClosed, abort, cleanedUp, runVars,
                   stopVars, crashed>>

\* attemptAcquire: tx.Commit; on success loop takes the change over
\* (nextState, jl.lastPing, jl.iteration)
commit(i) ==
    /\ Alive(i) /\ loopPc[i] = "commit" /\ lockOwner = i
    /\ \E e \in Outcomes :
        /\ table' = IF e = "err" THEN table ELSE pending
        /\ hist' = [hist EXCEPT
               ![i].err = (e # "ok"),
               ![i].written = IF e = "err" THEN @ ELSE change[i].Ping]
        /\ IF e = "ok"
           THEN /\ lastPing' = [lastPing EXCEPT ![i] = change[i].Ping]
                /\ iteration' = [iteration EXCEPT ![i] = change[i].Iteration]
                /\ notify(i, JobLockStateHeld, change[i].Ping)
           ELSE /\ UNCHANGED <<lastPing, iteration>>
                /\ notify(i, nextState[i], lastPing[i])
    /\ lockOwner' = None
    /\ pending' = {}
    /\ change' = [change EXCEPT ![i] = NoChange]
    /\ UNCHANGED <<job, made, now, once, outClosed, abort, cleanedUp, read, runVars,
                   stopVars, crashed>>

\* (a ping that gives the lock up when an error comes at staleAfter)
pingErrorEarly(i) ==
    IF Since(lastPing[i]) >= staleAfter THEN JobLockStateLost
    ELSE JobLockStateHeld

\* ping: the state returned after a store error
pingError(i) ==
    IF Since(lastPing[i]) > staleAfter THEN JobLockStateLost
    ELSE JobLockStateHeld

\* (a ping that reports none when no row was updated)
pingZeroRowsNone(i) == JobLockStateNone

\* (a ping that applies the grace period to zero rows as well)
pingZeroRowsGrace(i) ==
    IF Since(lastPing[i]) > staleAfter THEN JobLockStateLost
    ELSE JobLockStateHeld

\* ping: the state returned when no row was updated
pingZeroRows(i) == JobLockStateLost

\* the RunWithContext calls of the instance whose fn is running
Running(i) == {c \in Callers : mainPc[i][c] = "fn"}

\* loop, case JobLockStateHeld: ping when the last one is older than the
\* ping interval
ping(i) ==
    /\ Alive(i) /\ loopPc[i] = "top" /\ state[i] = JobLockStateHeld
    /\ IF Since(lastPing[i]) > pingInterval
       THEN \E e \in Outcomes :
            /\ e # "err" => lockOwner = None
            /\ table' = IF e = "err" THEN table
                        ELSE PingJobLock(table, i, iteration[i], now)
            /\ LET hit == PingRows(table, i, iteration[i]) # 0
                   next == IF e # "ok" THEN pingError(i)
                           ELSE IF hit THEN JobLockStateHeld
                           ELSE pingZeroRows(i)
               IN /\ hist' = [hist EXCEPT
                         ![i].err = (e # "ok"),
                         ![i].written = IF e # "err" /\ hit THEN now ELSE @,
                         ![i].left = IF next = JobLockStateLost
                                     THEN Running(i) ELSE @]
                  /\ IF e = "ok" /\ hit
                     THEN /\ iteration' = [iteration EXCEPT ![i] = @ + 1]
                          /\ lastPing' = [lastPing EXCEPT ![i] = now]
                          /\ notify(i, next, now)
                     ELSE /\ UNCHANGED <<iteration, lastPing>>
                          /\ notify(i, next, lastPing[i])
       ELSE /\ UNCHANGED <<table, hist, iteration, lastPing>>
            /\ notify(i, nextState[i], lastPing[i])
    /\ UNCHANGED <<job, made, now, lockOwner, pending, once, outClosed, abort,
                   cleanedUp, read, change, runVars, stopVars, crashed>>

\* loop: select, case <-jl.abort
loopAbort(i) ==
    /\ Alive(i) /\ loopPc[i] = "wait" /\ abort[i]
    /\ loopPc' = [loopPc EXCEPT ![i] = "release"]
    /\ wait' = [wait EXCEPT ![i] = 0]
    /\ UNCHANGED <<job, made, now, storeVars, lockVars, chanVars, nextState, read,
                   change, runVars, stopVars, crashed, hist>>

\* (a wait that ends before its timer fires)
loopWaitEarly(i) ==
    /\ Alive(i) /\ loopPc[i] = "wait"
    /\ loopPc' = [loopPc EXCEPT ![i] = "top"]
    /\ wait' = [wait EXCEPT ![i] = 0]
    /\ UNCHANGED <<job, made, now, storeVars, lockVars, chanVars, nextState, read,
                   change, runVars, stopVars, crashed, hist>>

\* loop: select, case <-wait
loopWait(i) ==
    /\ Alive(i) /\ loopPc[i] = "wait" /\ now >= wait[i]
    /\ loopPc' = [loopPc EXCEPT ![i] = "top"]
    /\ wait' = [wait EXCEPT ![i] = 0]
    /\ UNCHANGED <<job, made, now, storeVars, lockVars, chanVars, nextState, read,
                   change, runVars, stopVars, crashed, hist>>

\* (a release that is issued whatever the state)
releaseAlways(i) == FALSE

\* release: if jl.state != JobLockStateHeld { return }
releaseSkipped(i) == state[i] # JobLockStateHeld

\* release (deferred by loop): when the state is held, ReleaseJobLock and
\* select { case jl.out <- JobLockStateReleased: default: }
release(i) ==
    /\ Alive(i) /\ loopPc[i] = "release"
    /\ IF releaseSkipped(i)
       THEN UNCHANGED <<table, hist, out>>
       ELSE \E e \in Outcomes :
            /\ e # "err" => lockOwner = None
            /\ table' = IF e = "err" THEN table ELSE ReleaseJobLock(table, i)
            /\ hist' = [hist EXCEPT ![i].err = (e # "ok"),
                                    ![i].releases = @ + 1,
                                    ![i].left = Running(i)]
            /\ out' = IF Len(out[i]) >= 1 THEN out
                      ELSE [out EXCEPT ![i] = <<JobLockStateReleased>>]
    /\ loopPc' = [loopPc EXCEPT ![i] = "cleanedUp"]
    /\ UNCHANGED <<job, made, now, lockOwner, pending, lockVars, outClosed, abort,
                   cleanedUp, nextState, wait, read, change, runVars,
                   stopVars, crashed>>

\* (a release that returns without closing jl.cleanedUp)
releaseNoSignal(i) ==
    /\ Alive(i) /\ loopPc[i] = "cleanedUp"
    /\ loopPc' = [loopPc EXCEPT ![i] = "closeOut"]
    /\ UNCHANGED <<job, made, now, storeVars, lockVars, chanVars, nextState,
                   wait, read, change, runVars, stopVars, crashed, hist>>

\* release: the deferred close(jl.cleanedUp)
releaseCleanedUp(i) ==
    /\ Alive(i) /\ loopPc[i] = "cleanedUp"
    /\ cleanedUp' = [cleanedUp EXCEPT ![i] = TRUE]
    /\ loopPc' = [loopPc EXCEPT ![i] = "closeOut"]
    /\ UNCHANGED <<job, made, now, storeVars, lockVars, out, outClosed, abort,
                   nextState, wait, read, change, runVars, stopVars, crashed,
                   hist>>

\* loop: the deferred close(jl.out)
loopCloseOut(i) ==
    /\ Alive(i) /\ loopPc[i] = "closeOut"
    /\ outClosed' = [outClosed EXCEPT ![i] = TRUE]
    /\ loopPc' = [loopPc EXCEPT ![i] = "done"]
    /\ UNCHANGED <<job, made, now, storeVars, lockVars, out, abort, cleanedUp,
                   nextState, wait, read, change, runVars, stopVars, crashed,
                   hist>>

\* every step of the goroutine that runs jl.loop
loop(i) ==
    \/ attemptAcquire(i) \/ acquire(i) \/ steal(i) \/ commit(i)
    \/ ping(i) \/ loopAbort(i) \/ loopWait(i)
    \/ release(i) \/ releaseCleanedUp(i) \/ loopCloseOut(i)

(* ------------------------------- Stop ---------------------------------- *)
\* a goroutine of the process panics: the process dies and the store rolls
\* back the transaction its connection had open
Panic(i) ==
    /\ crashed' = [crashed EXCEPT ![i] = TRUE]
    /\ Rollback(i)

\* Stop: close(jl.abort); closing a closed channel panics
closeAbort(i, h) ==
    IF abort[i]
    THEN /\ Panic(i)
         /\ hist' = h
         /\ UNCHANGED abort
    ELSE /\ abort' = [abort EXCEPT ![i] = TRUE]
         /\ hist' = [h EXCEPT ![i].aborts = @ + 1]
         /\ UNCHANGED <<crashed, lockOwner, pending>>

\* Stop called from outside: close(jl.abort)
Stop(i, s) ==
    /\ Alive(i) /\ stopPc[i][s] = "idle"
    /\ closeAbort(i, [hist EXCEPT ![i].stopHeld =
           @ \/ (~abort[i] /\ state[i] = JobLockStateHeld
                 /\ Running(i) # {} /\ loopPc[i] \in {"top", "wait"})])
    /\ stopPc' = [stopPc EXCEPT ![i][s] = "wait"]
    /\ stopWait' = [stopWait EXCEPT ![i][s] = now + timeout]
    /\ UNCHANGED <<job, made, now, table, lockVars, out, outClosed, cleanedUp, loopVars,
                   runVars, consWait>>

\* Stop: select { case <-jl.cleanedUp: case <-time.After(jl.timeout): }
StopWait(i, s) ==
    /\ Alive(i) /\ stopPc[i][s] = "wait"
    /\ cleanedUp[i] \/ now >= stopWait[i][s]
    /\ stopPc' = [stopPc EXCEPT ![i][s] = "done"]
    /\ stopWait' = [stopWait EXCEPT ![i][s] = 0]
    /\ UNCHANGED <<job, made, now, storeVars, lockVars, chanVars, loopVars, runVars,
                   consWait, crashed, hist>>

(* --------------------------- RunWithContext ---------------------------- *)
\* (run without the once guard: go jl.loop())
runUnguarded(i, c) ==
    /\ Alive(i) /\ runPc[i][c] = "start"
    /\ once' = [once EXCEPT ![i] = TRUE]
    /\ loopPc' = [loopPc EXCEPT ![i] = "top"]
    /\ hist' = [hist EXCEPT ![i].loops = @ + 1]
    /\ runPc' = [runPc EXCEPT ![i][c] = "loop"]
    /\ UNCHANGED <<job, made, now, storeVars, state, lastPing, iteration, chanVars,
                   nextState, wait, read, change, mainPc, consPc, waitDone,
                   acquiredLock, result, stopVars, crashed>>

\* run: jl.once.Do(jl.loop)
run(i, c) ==
    /\ Alive(i) /\ runPc[i][c] = "start"
    /\ IF ~once[i]
       THEN /\ once' = [once EXCEPT ![i] = TRUE]
            /\ loopPc' = [loopPc EXCEPT ![i] = "top"]
            /\ hist' = [hist EXCEPT ![i].loops = @ + 1]
            /\ runPc' = [runPc EXCEPT ![i][c] = "loop"]
       ELSE /\ runPc' = [runPc EXCEPT ![i][c] = "once"]
            /\ UNCHANGED <<once, loopPc, hist>>
    /\ UNCHANGED <<job, made, now, storeVars, state, lastPing, iteration, chanVars,
                   nextState, wait, read, change, mainPc, consPc, waitDone,
                   acquiredLock, result, stopVars, crashed>>

\* run: a later once.Do returns when the first one has returned
runReturn(i, c) ==
    /\ Alive(i) /\ runPc[i][c] = "once" /\ loopPc[i] = "done"
    /\ runPc' = [runPc EXCEPT ![i][c] = "done"]
    /\ UNCHANGED <<job, made, now, storeVars, lockVars, chanVars, loopVars, mainPc,
                   consPc, waitDone, acquiredLock, result, stopVars, crashed,
                   hist>>

\* RunWithContext is called: waitCtx and acquiredLock are made and the
\* watching goroutine is started
RunWithContext(i, c) ==
    /\ Alive(i) /\ mainPc[i][c] = "idle"
    /\ mainPc' = [mainPc EXCEPT ![i][c] = "select"]
    /\ consPc' = [consPc EXCEPT ![i][c] = "start"]
    /\ UNCHANGED <<job, made, now, storeVars, lockVars, chanVars, loopVars, runPc,
                   waitDone, acquiredLock, result, stopVars, crashed, hist>>

\* the caller's context is cancelled, which ends waitCtx
ctxDone(i, c) ==
    /\ Alive(i) /\ mainPc[i][c] \in {"select", "fn"} /\ ~waitDone[i][c]
    /\ waitDone' = [waitDone EXCEPT ![i][c] = TRUE]
    /\ UNCHANGED <<job, made, now, storeVars, lockVars, chanVars, loopVars, mainPc,
                   consPc, runPc, acquiredLock, result, stopVars, crashed,
                   hist>>

\* RunWithContext: select, case <-acquiredLock: fn(waitCtx) is invoked
runAcquired(i, c) ==
    /\ Alive(i) /\ mainPc[i][c] = "select" /\ acquiredLock[i][c]
    /\ mainPc' = [mainPc EXCEPT ![i][c] = "fn"]
    /\ hist' = [hist EXCEPT ![i].invoked[c] = @ + 1]
    /\ UNCHANGED <<job, made, now, storeVars, lockVars, chanVars, loopVars, consPc,
                   runPc, waitDone, acquiredLock, result, stopVars, crashed>>

\* (a RunWithContext that returns ctx.Err() when the scope is cancelled)
runDoneErr(i, c) ==
    /\ Alive(i) /\ mainPc[i][c] = "select" /\ waitDone[i][c]
    /\ mainPc' = [mainPc EXCEPT ![i][c] = "returned"]
    /\ result' = [result EXCEPT ![i][c] = "ctxError"]
    /\ UNCHANGED <<job, made, now, storeVars, lockVars, chanVars, loopVars, consPc,
                   runPc, waitDone, acquiredLock, stopVars, crashed, hist>>

\* RunWithContext: select, case <-waitCtx.Done(): return nil
runDone(i, c) ==
    /\ Alive(i) /\ mainPc[i][c] = "select" /\ waitDone[i][c]
    /\ mainPc' = [mainPc EXCEPT ![i][c] = "returned"]
    /\ result' = [result EXCEPT ![i][c] = "nil"]
    /\ UNCHANGED <<job, made, now, storeVars, lockVars, chanVars, loopVars, consPc,
                   runPc, waitDone, acquiredLock, stopVars, crashed, hist>>

\* (a RunWithContext without its deferred cancel())
fnReturnNoCancel(i, c) ==
    /\ Alive(i) /\ mainPc[i][c] = "fn"
    /\ \E err \in {"nil", "fnError"} :
        result' = [result EXCEPT ![i][c] = err]
    /\ mainPc' = [mainPc EXCEPT ![i][c] = "returned"]
    /\ UNCHANGED <<job, made, now, storeVars, lockVars, chanVars, loopVars, consPc,
                   runPc, waitDone, acquiredLock, stopVars, crashed, hist>>

\* fn returns nil or an error of its own; RunWithContext returns it after
\* the deferred cancel()
fnReturn(i, c) ==
    /\ Alive(i) /\ mainPc[i][c] = "fn"
    /\ \E err \in {"nil", "fnError"} :
        result' = [result EXCEPT ![i][c] = err]
    /\ waitDone' = [waitDone EXCEPT ![i][c] = TRUE]
    /\ mainPc' = [mainPc EXCEPT ![i][c] = "returned"]
    /\ UNCHANGED <<job, made, now, storeVars, lockVars, chanVars, loopVars, consPc,
                   runPc, acquiredLock, stopVars, crashed, hist>>

\* a cooperative fn: it returns once its context has been cancelled
fnCancelled(i, c) == waitDone[i][c] /\ fnReturn(i, c)

\* the watching goroutine: go jl.run()
watchStart(i, c) ==
    /\ Alive(i) /\ consPc[i][c] = "start"
    /\ consPc' = [consPc EXCEPT ![i][c] = "select"]
    /\ runPc' = [runPc EXCEPT ![i][c] = "start"]
    /\ UNCHANGED <<job, made, now, storeVars, lockVars, chanVars, loopVars, mainPc,
                   waitDone, acquiredLock, result, stopVars, crashed, hist>>

\* (a watching goroutine without its deferred cancel())
watchReturnNoCancel(i, c) ==
    /\ consPc' = [consPc EXCEPT ![i][c] = "stop"]
    /\ UNCHANGED waitDone

\* the watching goroutine returns from its loop: the deferred cancel()
watchReturn(i, c) ==
    /\ waitDone' = [waitDone EXCEPT ![i][c] = TRUE]
    /\ consPc' = [consPc EXCEPT ![i][c] = "stop"]

\* the watching goroutine: select, case <-jl.abort
watchAbort(i, c) ==
    /\ Alive(i) /\ consPc[i][c] = "select" /\ abort[i]
    /\ watchReturn(i, c)
    /\ UNCHANGED <<job, made, now, storeVars, lockVars, chanVars, loopVars, mainPc,
                   runPc, acquiredLock, result, stopVars, crashed, hist>>

\* what a receive from jl.out yields: the buffered value, or the zero value
\* once the channel is closed and drained
Received(i) == IF Len(out[i]) > 0 THEN Head(out[i]) ELSE JobLockStateNone

\* the watching goroutine: select, case state := <-jl.out
watchState(i, c) ==
    /\ Alive(i) /\ consPc[i][c] = "select"
    /\ Len(out[i]) > 0 \/ outClosed[i]
    /\ out' = [out EXCEPT ![i] = << >>]
    /\ CASE Received(i) = JobLockStateNone ->
              UNCHANGED <<consPc, waitDone, acquiredLock, crashed,
                          lockOwner, pending>>
         [] Received(i) \in {JobLockStateLost, JobLockStateReleased} ->
              /\ watchReturn(i, c)
              /\ UNCHANGED <<acquiredLock, crashed, lockOwner, pending>>
         [] Received(i) = JobLockStateHeld ->
              IF acquiredLock[i][c]
              THEN /\ Panic(i)     \* close of a closed channel
                   /\ UNCHANGED <<consPc, waitDone, acquiredLock>>
              ELSE /\ acquiredLock' = [acquiredLock EXCEPT ![i][c] = TRUE]
                   /\ UNCHANGED <<consPc, waitDone, crashed, lockOwner,
                                  pending>>
    /\ UNCHANGED <<job, made, now, table, lockVars, outClosed, abort, cleanedUp,
                   loopVars, mainPc, runPc, result, stopVars, hist>>

\* the watching goroutine: select, case <-waitCtx.Done()
watchDone(i, c) ==
    /\ Alive(i) /\ consPc[i][c] = "select" /\ waitDone[i][c]
    /\ watchReturn(i, c)
    /\ UNCHANGED <<job, made, now, storeVars, lockVars, chanVars, loopVars, mainPc,
                   runPc, acquiredLock, result, stopVars, crashed, hist>>

\* the watching goroutine: the deferred jl.Stop(), close(jl.abort)
watchStop(i, c) ==
    /\ Alive(i) /\ consPc[i][c] = "stop"
    /\ closeAbort(i, hist)
    /\ consPc' = [consPc EXCEPT ![i][c] = "stopWait"]
    /\ consWait' = [consWait EXCEPT ![i][c] = now + timeout]
    /\ UNCHANGED <<job, made, now, table, lockVars, out, outClosed, cleanedUp, loopVars,
                   mainPc, runPc, waitDone, acquiredLock, result, stopPc,
                   stopWait>>

\* the watching goroutine: the wait at the end of the deferred jl.Stop()
watchStopWait(i, c) ==
    /\ Alive(i) /\ consPc[i][c] = "stopWait"
    /\ cleanedUp[i] \/ now >= consWait[i][c]
    /\ consPc' = [consPc EXCEPT ![i][c] = "done"]
    /\ consWait' = [consWait EXCEPT ![i][c] = 0]
    /\ UNCHANGED <<job, made, now, storeVars, lockVars, chanVars, loopVars, mainPc,
                   runPc, waitDone, acquiredLock, result, stopPc, stopWait,
                   crashed, hist>>

\* the steps of the watching goroutine of one RunWithContext call
watch(i, c) ==
    \/ watchStart(i, c) \/ run(i, c)
    \/ watchState(i, c) \/ watchDone(i, c)
    \/ watchStop(i, c) \/ watchStopWait(i, c)

(* --------------------------- specifications ---------------------------- *)
\* Spec: two instances race for the name, each under one RunWithContext
\* call with a cooperative fn; the context of a's caller may be cancelled
Next ==
    \/ Tick
    \/ \E i \in Inst :
        \/ loop(i)
        \/ RunWithContext(i, 1) \/ runAcquired(i, 1) \/ runDone(i, 1)
        \/ fnCancelled(i, 1) \/ watch(i, 1)
    \/ ctxDone("a", 1)

Spec == Init /\ [][Next]_vars

\* SpecRun: one instance under one RunWithContext call; fn returns when it
\* likes, the caller's context may be cancelled and Stop may be called
RunInst == "a"
RunCaller == 1

NextRun ==
    \/ Tick
    \/ loop(RunInst)
    \/ RunWithContext(RunInst, RunCaller)
    \/ runAcquired(RunInst, RunCaller) \/ runDone(RunInst, RunCaller)
    \/ fnReturn(RunInst, RunCaller)
    \/ watch(RunInst, RunCaller) \/ watchAbort(RunInst, RunCaller)
    \/ ctxDone(RunInst, RunCaller)
    \/ \E s \in {1} : Stop(RunInst, s) \/ StopWait(RunInst, s)

SpecRun == Init /\ [][NextRun]_vars

\* FairRun: SpecRun where a goroutine that can take a step is scheduled in
\* the end
FairRun ==
    /\ SpecRun
    /\ WF_vars(loop(RunInst))
    /\ WF_vars(watch(RunInst, RunCaller) \/ watchAbort(RunInst, RunCaller))
    /\ WF_vars(runAcquired(RunInst, RunCaller) \/ runDone(RunInst, RunCaller))

\* SpecCalls: one instance under two concurrent RunWithContext calls
NextCalls ==
    \/ Tick
    \/ loop("a")
    \/ \E c \in Callers :
        \/ RunWithContext("a", c) \/ runAcquired("a", c) \/ runDone("a", c)
        \/ fnReturn("a", c) \/ watch("a", c) \/ watchAbort("a", c)
        \/ runReturn("a", c) \/ ctxDone("a", c)

SpecCalls == Init /\ [][NextCalls]_vars

\* SpecNew: NewJobLock is called once with any options
InitNew ==
    /\ \E opts \in JobLockOptions, hostname \in BOOLEAN :
        made = [opts |-> opts, hostname |-> hostname, lock |-> NotCalled]
    /\ job = NoJob
    /\ now = 0
    /\ table = {}
    /\ lockOwner = None
    /\ pending = {}
    /\ state = [i \in Inst |-> JobLockStateNone]
    /\ lastPing = [i \in Inst |-> 0]
    /\ iteration = [i \in Inst |-> 0]
    /\ once = [i \in Inst |-> FALSE]
    /\ out = [i \in Inst |-> << >>]
    /\ outClosed = [i \in Inst |-> FALSE]
    /\ abort = [i \in Inst |-> FALSE]
    /\ cleanedUp = [i \in Inst |-> FALSE]
    /\ loopPc = [i \in Inst |-> "idle"]
    /\ nextState = [i \in Inst |-> JobLockStateNone]
    /\ wait = [i \in Inst |-> 0]
    /\ read = [i \in Inst |-> NoRow]
    /\ change = [i \in Inst |-> NoChange]
    /\ mainPc = [i \in Inst |-> [c \in Callers |-> "idle"]]
    /\ consPc = [i \in Inst |-> [c \in Callers |-> "idle"]]
    /\ runPc = [i \in Inst |-> [c \in Callers |-> "idle"]]
    /\ waitDone = [i \in Inst |-> [c \in Callers |-> FALSE]]
    /\ acquiredLock = [i \in Inst |-> [c \in Callers |-> FALSE]]
    /\ result = [i \in Inst |-> [c \in Callers |-> "none"]]
    /\ stopPc = [i \in Inst |-> [s \in Stoppers |-> "idle"]]
    /\ stopWait = [i \in Inst |-> [s \in Stoppers |-> 0]]
    /\ consWait = [i \in Inst |-> [c \in Callers |-> 0]]
    /\ crashed = [i \in Inst |-> FALSE]
    /\ hist = [i \in Inst |-> NoHist]

\* the call of NewJobLock
callNewJobLock ==
    /\ made.lock = NotCalled
    /\ made' = [made EXCEPT !.lock = NewJobLock(made.opts, made.hostname)]
    /\ UNCHANGED <<job, now, storeVars, lockVars, chanVars, loopVars, runVars,
                   stopVars, crashed, hist>>

NextNew == callNewJobLock

SpecNew == InitNew /\ [][NextNew]_vars

(* ------------------------------- claims -------------------------------- *)
\* the instance has local state held and its loop has not yet run release
Holding(i) ==
    /\ state[i] = JobLockStateHeld
    /\ loopPc[i] \in {"top", "wait", "release"}
    /\ ~crashed[i]

\* C1 as stated: mutual exclusion, at no instant do two instances of the
\* name both have local state held
C1_MutualExclusion ==
    \A i, j \in Inst : i # j => ~(Holding(i) /\ Holding(j))

\* C1 as amended: two instances are both held only while one of them has
\* not written the row (insert, steal or successful ping) for staleAfter or
\* longer; two instances that both wrote it more recently are never both held
C1_StaleOverlapOnly ==
    \A i, j \in Inst :
        (i # j /\ Holding(i) /\ Holding(j)) =>
            \E k \in {i, j} : now - hist[k].written >= staleAfter

\* C1 witness: a stale holder and the instance that stole its lock are both
\* held
C1_Overlap ==
    \E i, j \in Inst :
        /\ i # j /\ Holding(i) /\ Holding(j)
        /\ GetJobLock(table).holder = j

\* C2: when the lock state leaves held (lost, or released at loop exit)
\* while fn is running, the context passed to fn is cancelled in the end
C2_CancelOnLoss ==
    (RunCaller \in hist[RunInst].left) ~> waitDone[RunInst][RunCaller]

\* C2 witness: the lock was lost while fn was running, fn is still running
\* and its context has been cancelled
C2_LostAndCancelled ==
    \E i \in Inst, c \in Callers :
        /\ c \in hist[i].left /\ state[i] = JobLockStateLost
        /\ mainPc[i][c] = "fn" /\ waitDone[i][c]

\* C3: no lost or released notification is dropped, so a consumer that has
\* received held is never left waiting on a closed and drained jl.out with
\* nothing else to wake it
C3_NeverLeftHolding ==
    \A i \in Inst, c \in Callers :
        (/\ acquiredLock[i][c] /\ consPc[i][c] = "select"
         /\ loopPc[i] = "done" /\ ~abort[i] /\ ~waitDone[i][c])
            => Len(out[i]) > 0

\* C4 as stated, the part that fails: once the derived scope is cancelled
\* before fn was invoked, fn is not invoked
C4_CancelledNeverInvoked ==
    [][\A i \in Inst, c \in Callers :
          (waitDone[i][c] /\ mainPc[i][c] = "select")
              => mainPc'[i][c] # "fn"]_vars

\* C4 as amended: fn is invoked at most once and only after the watching
\* goroutine has received held; a call that returns without invoking fn
\* returns nil and does so only with the scope cancelled; a call that
\* invoked fn returns what fn returned
C4_InvokeAfterHeld ==
    \A i \in Inst, c \in Callers :
        /\ hist[i].invoked[c] <= 1
        /\ hist[i].invoked[c] = 1 => acquiredLock[i][c]
        /\ mainPc[i][c] = "fn" => hist[i].invoked[c] = 1
        /\ mainPc[i][c] = "returned" =>
              IF hist[i].invoked[c] = 0
              THEN result[i][c] = "nil" /\ waitDone[i][c]
              ELSE result[i][c] \in {"nil", "fnError"}

\* C4 witness: held had been received, the scope was cancelled and
\* RunWithContext returned nil without invoking fn
C4_ReturnedNil ==
    \E i \in Inst, c \in Callers :
        /\ mainPc[i][c] = "returned" /\ hist[i].invoked[c] = 0
        /\ acquiredLock[i][c] /\ result[i][c] = "nil"

C6_StopIdempotent ==
    \A i \in Inst : ~crashed[i] /\ hist[i].aborts <= 1

\* C7: after a Stop with the lock held and fn running, the context of fn
\* is cancelled and a release delete is issued: an instance that takes no
\* further step has done both
C7_StopReleases ==
    \A i \in Inst :
        (hist[i].stopHeld /\ (crashed[i] \/ loopPc[i] = "done")) =>
            /\ hist[i].releases >= 1
            /\ \A c \in Callers : hist[i].invoked[c] = 1 => waitDone[i][c]

\* C8: however often RunWithContext is called on an instance, its loop is
\* started once
C8_OneLoop ==
    \A i \in Inst : hist[i].loops <= 1

\* C8 witness: both calls have been through run, the loop that the first
\* started has exited and the second call of once.Do has returned
C8_BothRan ==
    \E i \in Inst, c \in Callers :
        /\ runPc[i][c] = "done" /\ loopPc[i] = "done"
        /\ hist[i].loops = 1

\* the row of the name in the committed table
Row == GetJobLock(table)

\* C9: when the row held by a is older than staleAfter, an acquisition
\* attempt by b that meets no store error steals it (holder b, iteration
\* one higher, b held), and the next ping of a that meets no store error
\* affects no row and moves a to lost
C9_StaleTakeover ==
    [][\A a, b \in Inst : a # b =>
        /\ (/\ loopPc[b] = "top" /\ state[b] = JobLockStateNone
            /\ loopPc'[b] # "top" /\ ~hist'[b].err
            /\ Row.holder = a /\ Since(Row.touched) > staleAfter)
              => loopPc'[b] = "steal" /\ read'[b] = Row
        /\ (/\ loopPc[b] = "steal" /\ loopPc'[b] # "steal"
            /\ ~hist'[b].err /\ read[b].holder = a)
              => /\ loopPc'[b] = "commit"
                 /\ pending' = {[holder |-> b, touched |-> now,
                                 iteration |-> read[b].iteration + 1]}
        /\ (/\ loopPc[b] = "commit" /\ loopPc'[b] # "commit"
            /\ ~hist'[b].err /\ Row.holder = a)
              => /\ table' = {[holder |-> b, touched |-> change[b].Ping,
                               iteration |-> Row.iteration + 1]}
                 /\ state'[b] = JobLockStateHeld
                 /\ iteration'[b] = Row.iteration + 1
        /\ (/\ loopPc[a] = "top" /\ state[a] = JobLockStateHeld
            /\ Since(lastPing[a]) > pingInterval
            /\ loopPc'[a] # "top" /\ ~hist'[a].err
            /\ Row.holder = b)
              => state'[a] = JobLockStateLost /\ table' = table]_vars

\* C9 witness: b has stolen the row and a, pinging without a store error,
\* has moved to lost
C9_TakenOver ==
    \E a, b \in Inst :
        /\ a # b /\ state[a] = JobLockStateLost /\ ~hist[a].err
        /\ state[b] = JobLockStateHeld
        /\ Row.holder = b /\ Row.iteration >= 2

\* C10: of two instances that both found no row, the one whose insert meets
\* no row is held with iteration 1 once committed, the other gets not
\* acquired (state none, no error, nothing notified), and the table never
\* has two rows for the name
C10_InsertRace ==
    /\ [](Cardinality(table) <= 1)
    /\ [][\A i \in Inst :
          /\ (/\ loopPc[i] = "insert" /\ loopPc'[i] # "insert"
              /\ ~hist'[i].err)
                => IF table = {}
                   THEN /\ loopPc'[i] = "commit"
                        /\ pending' = {[holder |-> i, touched |-> now,
                                        iteration |-> 1]}
                   ELSE /\ state'[i] = JobLockStateNone
                        /\ loopPc'[i] = "wait"
                        /\ out'[i] = out[i] /\ table' = table
          /\ (/\ loopPc[i] = "commit" /\ loopPc'[i] # "commit"
              /\ ~hist'[i].err /\ table = {})
                => /\ table' = {[holder |-> i, touched |-> change[i].Ping,
                                 iteration |-> 1]}
                   /\ state'[i] = JobLockStateHeld
                   /\ iteration'[i] = 1]_vars

\* C10 witness: both instances found no row; one has inserted and is about
\* to commit while the other is about to insert
C10_Racing ==
    \E i, j \in Inst :
        /\ i # j /\ loopPc[i] = "commit" /\ change[i].Iteration = 1
        /\ loopPc[j] = "insert"

\* C11: over insert, steal and ping by any instances, concurrent ones
\* included, the iteration stored for the name never decreases: no step
\* that leaves the row in place lowers its iteration
C11_IterationMonotone ==
    [][(table # {} /\ table' # {})
          => GetJobLock(table').iteration >= Row.iteration]_vars

\* C11 witness: the holder has pinged its row, which carries a raised
\* iteration, while the other instance is attempting to acquire
C11_Raised ==
    \E i, j \in Inst :
        /\ i # j /\ Row.holder = i /\ Row.iteration >= 2
        /\ iteration[i] = Row.iteration /\ state[i] = JobLockStateHeld
        /\ loopPc[j] \in {"top", "wait", "steal", "insert"}
        /\ state[j] = JobLockStateNone

\* C12 as stated: over the whole life of the name the stored iteration never
\* decreases, so once an instance that knew iteration k has released the
\* lock no row with an iteration below k is stored
C12_NeverDecreases ==
    \A i \in Inst :
        (hist[i].releases >= 1 /\ table # {})
            => Row.iteration >= iteration[i]

\* C12 as amended: the stored iteration never decreases while the row
\* exists; a row inserted after the name had no row starts again at 1
C12_RestartsAtOne ==
    [][/\ (table # {} /\ table' # {})
             => GetJobLock(table').iteration >= Row.iteration
       /\ (table = {} /\ table' # {})
             => GetJobLock(table').iteration = 1]_vars

\* C12 witness: an instance that had reached iteration 2 released the lock
\* and the other instance has inserted the row anew with iteration 1
C12_Reinserted ==
    \E i, j \in Inst :
        /\ i # j /\ hist[i].releases >= 1 /\ iteration[i] >= 2
        /\ Row.holder = j /\ Row.iteration = 1

\* C13: a ping changes the row only when the row carries the identity of
\* the pinging instance and the iteration that instance last observed, a
\* steal only when the row carries the holder and iteration the stealer
\* read; otherwise no row is affected, the row stays as it is and a ping
\* that met no store error reports lost
C13_FencingGuard ==
    [][\A i \in Inst :
        /\ (/\ loopPc[i] = "top" /\ state[i] = JobLockStateHeld
            /\ loopPc'[i] # "top")
              => IF Row.holder = i /\ Row.iteration = iteration[i]
                 THEN table' \in
                        {table, {[holder |-> i, touched |-> now,
                                  iteration |-> Row.iteration + 1]}}
                 ELSE /\ table' = table
                      /\ (~hist'[i].err /\ Since(lastPing[i]) > pingInterval)
                            => state'[i] = JobLockStateLost
        /\ (loopPc[i] = "steal" /\ loopPc'[i] # "steal")
              => /\ table' = table
                 /\ IF /\ GetJobLock(pending).holder = read[i].holder
                       /\ GetJobLock(pending).iteration = read[i].iteration
                    THEN pending' \in
                           {{}, {[holder |-> i, touched |-> now,
                                  iteration |-> read[i].iteration + 1]}}
                    ELSE pending' = {} /\ loopPc'[i] # "commit"
        /\ (loopPc[i] = "commit" /\ loopPc'[i] # "commit")
              => table' \in {table, pending}]_vars

\* C13 witness: the row still carries the identity of the instance but not
\* the iteration it knows (an earlier ping was applied though it reported
\* an error); its ping affected no row and it is lost
C13_Rejected ==
    \E i \in Inst :
        /\ state[i] = JobLockStateLost /\ ~hist[i].err
        /\ Row.holder = i /\ Row.iteration # iteration[i]

\* a step of the loop of i that issues a ping
Pinging(i) ==
    /\ loopPc[i] = "top" /\ state[i] = JobLockStateHeld
    /\ Since(lastPing[i]) > pingInterval /\ loopPc'[i] # "top"

\* C14: a ping that fails with a store error leaves the instance held when
\* the last successful ping is at most staleAfter old, and moves it to lost
\* when it is older
C14_GracePeriod ==
    [][\A i \in Inst :
          (Pinging(i) /\ hist'[i].err) =>
              state'[i] = IF now - lastPing[i] <= staleAfter
                          THEN JobLockStateHeld
                          ELSE JobLockStateLost]_vars

\* C14 witness: a ping was due, it failed with a store error within
\* staleAfter of the last successful ping, and the instance is still held
\* and waits for its next ping
C14_HeldAfterError ==
    \E i \in Inst :
        /\ state[i] = JobLockStateHeld /\ hist[i].err
        /\ loopPc[i] = "wait"
        /\ Since(lastPing[i]) > pingInterval
        /\ Since(lastPing[i]) <= staleAfter

\* C15: a ping that meets no store error and affects no row moves the
\* instance to lost at once and ends the loop, however recent the last
\* successful ping is
C15_ZeroRowsLost ==
    [][\A i \in Inst :
          (/\ Pinging(i) /\ ~hist'[i].err
           /\ ~(Row.holder = i /\ Row.iteration = iteration[i]))
              => /\ state'[i] = JobLockStateLost
                 /\ loopPc'[i] = "release"
                 /\ table' = table]_vars

\* C15 witness: the instance is lost after a ping that affected no row,
\* with its last successful ping still within staleAfter
C15_LostWithinGrace ==
    \E i \in Inst :
        /\ state[i] = JobLockStateLost /\ ~hist[i].err
        /\ loopPc[i] = "release"
        /\ Since(lastPing[i]) <= staleAfter

\* the positions of loop after it has returned: the deferred release, the
\* deferred closes, the end
Exited == {"cleanedUp", "closeOut", "done"}

\* C16: when the loop makes a state change while the earlier notification
\* is still in jl.out, it returns at once without offering again, and the
\* instance issues no store operation afterwards
C16_BackpressureFatal ==
    [][\A i \in Inst :
        /\ (state'[i] # state[i] /\ Len(out[i]) >= 1)
              => /\ loopPc'[i] = "release" /\ out'[i] = out[i]
                 /\ state'[i] # JobLockStateHeld
        /\ (loopPc[i] \in Exited \cup {"release"}
               /\ state[i] # JobLockStateHeld /\ i = RunInst)
              => /\ loopPc'[i] \in Exited \cup {"release"}
                 /\ hist'[i].releases = hist[i].releases
                 /\ storeVars' = storeVars]_vars

\* C16 witness: held was never drained, the change to lost could not be
\* offered and the loop has ended without a release
C16_EndedUndrained ==
    \E i \in Inst :
        /\ loopPc[i] = "done" /\ state[i] = JobLockStateLost
        /\ out[i] = <<JobLockStateHeld>> /\ hist[i].releases = 0

\* C17: when the loop has returned, for whatever reason, one release delete
\* has been issued if the last known state is held and none if it is none
\* or lost; before that no release delete is issued
C17_ReleaseOnExit ==
    \A i \in Inst :
        hist[i].releases =
            IF loopPc[i] \in Exited /\ state[i] = JobLockStateHeld
            THEN 1 ELSE 0

\* C17 witness: the loop returned on the abort signal with the lock held
\* and has issued its release delete
C17_ReleasedOnAbort ==
    \E i \in Inst :
        /\ loopPc[i] = "done" /\ abort[i]
        /\ state[i] = JobLockStateHeld /\ hist[i].releases = 1

\* the options of the call once the defaults are filled in
Filled == withDefaults(made.opts)

\* C18 as stated: NewJobLock returns an error and no lock whenever, with
\* the defaults filled in, staleAfter <= pingInterval or timeout >=
\* pingInterval, and otherwise a lock whose state is none
C18_ValidatedOptions ==
    made.lock # NotCalled =>
        IF \/ Filled.StaleAfter <= Filled.PingInterval
           \/ Filled.Timeout >= Filled.PingInterval
        THEN made.lock = NoLock
        ELSE ~made.lock.err /\ made.lock.state = JobLockStateNone

\* C18 as amended: the same, but a lock is returned only when os.Hostname
\* succeeds as well; the lock carries the options with the defaults
\* (pingInterval 10s, staleAfter 4 x, checkInterval 2 x pingInterval,
\* timeout pingInterval / 2) filled in
C18_ValidatedOrNoHostname ==
    made.lock # NotCalled =>
        IF \/ Filled.StaleAfter <= Filled.PingInterval
           \/ Filled.Timeout >= Filled.PingInterval
           \/ ~made.hostname
        THEN made.lock = NoLock
        ELSE /\ ~made.lock.err /\ made.lock.state = JobLockStateNone
             /\ made.lock.pingInterval =
                  IF made.opts.PingInterval = 0 THEN 10
                  ELSE made.opts.PingInterval
             /\ made.lock.staleAfter =
                  IF made.opts.StaleAfter = 0
                  THEN 4 * made.lock.pingInterval
                  ELSE made.opts.StaleAfter
             /\ made.lock.checkInterval =
                  IF made.opts.CheckInterval = 0
                  THEN 2 * made.lock.pingInterval
                  ELSE made.opts.CheckInterval
             /\ made.lock.timeout =
                  IF made.opts.Timeout = 0
                  THEN made.lock.pingInterval \div 2
                  ELSE made.opts.Timeout

\* C18 witness: called with zero-valued options only, NewJobLock has
\* returned a lock with the defaults
C18_Defaults ==
    /\ made.opts = [PingInterval |-> 0, StaleAfter |-> 0,
                    CheckInterval |-> 0, Timeout |-> 0]
    /\ made.lock = [err |-> FALSE, state |-> JobLockStateNone,
                    pingInterval |-> 10, staleAfter |-> 40,
                    checkInterval |-> 20, timeout |-> 5]

\* C19: jl.state changes only from none to held, from held to lost and
\* from held to released (a successful ping leaves it held); once it is lost
\* or released, or the loop has returned, it changes no more and the loop
\* issues no acquire and no ping
C19_StateTransitions ==
    [][\A i \in Inst :
        /\ state'[i] # state[i] =>
              <<state[i], state'[i]>> \in
                  {<<JobLockStateNone, JobLockStateHeld>>,
                   <<JobLockStateHeld, JobLockStateLost>>,
                   <<JobLockStateHeld, JobLockStateReleased>>}
        /\ (\/ state[i] \in {JobLockStateLost, JobLockStateReleased}
            \/ loopPc[i] \in Exited)
              => /\ state'[i] = state[i]
                 /\ loopPc'[i] \in Exited \cup {"release"}
                 /\ lastPing'[i] = lastPing[i]
                 /\ iteration'[i] = iteration[i]
                 /\ i = RunInst => (table' = table /\ pending' = pending)]_vars

\* C19 witness: the instance went from none to held, fn was started, then
\* it went to lost and its loop has returned
C19_HeldThenLost ==
    \E i \in Inst, c \in Callers :
        /\ state[i] = JobLockStateLost /\ loopPc[i] = "done"
        /\ hist[i].invoked[c] = 1 /\ hist[i].releases = 0

\* C20: on one instance held is received from jl.out at most once, lost or
\* released is received only after held has been received, and nothing but
\* these three states is ever sent
C20_DeliveryOrder ==
    [][\A i \in Inst :
        /\ out'[i] # << >> =>
              Head(out'[i]) \in {JobLockStateHeld, JobLockStateLost,
                                 JobLockStateReleased}
        /\ (out[i] # << >> /\ out'[i] = << >>) =>
              IF Head(out[i]) = JobLockStateHeld
              THEN \A c \in Callers : ~acquiredLock[i][c]
              ELSE \E c \in Callers : acquiredLock[i][c]]_vars

\* C20 witness: held has been received and lost is in jl.out for the
\* watching goroutine to receive
C20_LostAfterHeld ==
    \E i \in Inst, c \in Callers :
        /\ acquiredLock[i][c] /\ consPc[i][c] = "select"
        /\ out[i] = <<JobLockStateLost>>

\* a step in which the loop of i, in state none, begins an acquisition
\* attempt
Attempting(i) ==
    /\ loopPc[i] = "top" /\ state[i] = JobLockStateNone
    /\ loopPc'[i] # "top"

\* C21: an acquisition attempt that reads a row whose touched time is less
\* than staleAfter old reports not acquired and leaves the row as it is,
\* whoever its holder is
C21_FreshRowKept ==
    [][\A i \in Inst :
          (/\ Attempting(i) /\ ~hist'[i].err
           /\ table # {} /\ now - Row.touched < staleAfter)
              => /\ table' = table /\ pending' = pending
                 /\ lockOwner' = lockOwner
                 /\ state'[i] = JobLockStateNone /\ loopPc'[i] = "wait"
                 /\ out'[i] = out[i]
                 /\ iteration'[i] = iteration[i]]_vars

\* C21 witness: the instance found a fresh row that carries its own
\* identity (its insert was committed though the commit reported an error)
\* and waits, not acquired
C21_OwnFreshRow ==
    \E i \in Inst :
        /\ state[i] = JobLockStateNone /\ loopPc[i] = "wait"
        /\ ~hist[i].err /\ Row.holder = i
        /\ now - Row.touched < staleAfter

\* C22: after a ping that failed with a store error inside the grace
\* period the instance is held and waits a further pingInterval before its
\* next ping
C22_RetryAtNextInterval ==
    [][\A i \in Inst :
          (/\ Pinging(i) /\ hist'[i].err
           /\ state'[i] = JobLockStateHeld)
              => /\ loopPc'[i] = "wait"
                 /\ wait'[i] >= now + pingInterval]_vars

\* the positions of loop inside a transaction that has the row locked
Stealing == {"steal", "commit"}

\* C23: of two instances that try to steal the same stale row only one is
\* inside the stealing transaction at a time; the one whose steal commits is
\* held with the iteration it read plus one and has refreshed the row; an
\* attempt or a steal that ends otherwise leaves the instance in state none
\* with its loop waiting for the next cycle
C23_StealRace ==
    /\ [](\A i, j \in Inst :
            (i # j /\ loopPc[i] \in Stealing) => loopPc[j] \notin Stealing)
    /\ [][\A i \in Inst :
          /\ (/\ loopPc[i] = "commit" /\ loopPc'[i] # "commit"
              /\ table # {} /\ ~hist'[i].err)
                => /\ state'[i] = JobLockStateHeld
                   /\ iteration'[i] = Row.iteration + 1
                   /\ table' = {[holder |-> i, touched |-> change[i].Ping,
                                 iteration |-> Row.iteration + 1]}
          /\ (Attempting(i) /\ loopPc'[i] \notin {"insert", "steal"})
                => /\ state'[i] = JobLockStateNone /\ loopPc'[i] = "wait"
                   /\ table' = table /\ out'[i] = out[i]
          /\ (loopPc[i] = "steal" /\ loopPc'[i] \notin Stealing)
                => /\ state'[i] = JobLockStateNone /\ loopPc'[i] = "wait"
                   /\ table' = table /\ out'[i] = out[i]]_vars

\* C23 witness: both instances are after the stale row; one has stolen it
\* and is about to commit while the other, in state none, is at its
\* acquisition attempt
C23_Racing ==
    \E i, j \in Inst :
        /\ i # j /\ loopPc[i] = "commit" /\ change[i].Iteration >= 2
        /\ loopPc[j] = "top" /\ state[j] = JobLockStateNone
        /\ ~isFresh(Row)

\* the positions of loop inside attemptAcquire after the read
Acquiring == {"insert", "steal", "commit"}

\* a step that ends an acquisition attempt of i without the lock
AttemptFails(i) ==
    /\ \/ loopPc[i] = "top" /\ state[i] = JobLockStateNone
       \/ loopPc[i] \in Acquiring
    /\ loopPc'[i] \notin Acquiring \cup {"top"}
    /\ state'[i] # JobLockStateHeld

\* C24: an acquisition attempt that does not succeed, for whatever reason,
\* leaves the instance in state none with nothing sent on jl.out and
\* nothing returned from RunWithContext, and the loop waits checkInterval
\* before the next attempt, which it makes unless it takes the abort signal
C24_FailedAttemptRetried ==
    [][\A i \in Inst :
        /\ AttemptFails(i)
              => /\ state'[i] = JobLockStateNone
                 /\ nextState'[i] = JobLockStateNone
                 /\ out'[i] = out[i]
                 /\ result'[i] = result[i] /\ mainPc'[i] = mainPc[i]
                 /\ loopPc'[i] = "wait"
                 /\ wait'[i] = now + checkInterval
        /\ (/\ loopPc[i] = "wait" /\ state[i] = JobLockStateNone
            /\ loopPc'[i] # "wait")
              => \/ loopPc'[i] = "top" /\ now >= wait[i]
                 \/ loopPc'[i] = "release" /\ abort[i]]_vars

\* C24 witness: an attempt of the instance failed with a store error; it is
\* in state none, has sent nothing and waits for its next attempt
C24_WaitingAfterError ==
    \E i \in Inst :
        /\ state[i] = JobLockStateNone /\ loopPc[i] = "wait"
        /\ hist[i].err /\ wait[i] = now + checkInterval
        /\ out[i] = << >> /\ mainPc[i][1] = "select"

\* a step in which release of i runs (skipped or issued)
Releasing(i) == loopPc[i] = "release" /\ loopPc'[i] # "release"

\* C25: release deletes only a row whose holder is the releasing instance:
\* when the row is held by another identity the release leaves the table
\* as it is, and whenever a release changes the table it has deleted the
\* instance's own row
C25_ReleaseOwnRowOnly ==
    [][\A i \in Inst : Releasing(i) =>
          /\ (table # {} /\ Row.holder # i) => table' = table
          /\ table' # table
                => table # {} /\ Row.holder = i /\ table' = {}]_vars

\* C25 witness: an instance that believed it held the lock has issued its
\* release without error while the row names the other instance, which
\* took the row over at the next iteration; the row is still there
C25_ReleasedForeignRow ==
    \E i \in Inst :
        /\ loopPc[i] = "cleanedUp" /\ state[i] = JobLockStateHeld
        /\ hist[i].releases = 1 /\ ~hist[i].err
        /\ table # {} /\ Row.holder # i
        /\ Row.iteration = iteration[i] + 1

\* the positions of loop after the deferred close(jl.cleanedUp)
Signalled == {"closeOut", "done"}

\* C26: the cleanup signal is raised exactly when release has finished,
\* once, and before jl.out is closed; every run of release, skipped,
\* successful, failed or deleting nothing, is followed by the signal and
\* leaves the result of RunWithContext alone
C26_CleanupSignalled ==
    /\ [](\A i \in Inst :
            /\ cleanedUp[i] <=> loopPc[i] \in Signalled
            /\ outClosed[i] <=> loopPc[i] = "done"
            /\ (loopPc[i] = "cleanedUp" /\ Alive(i))
                  => ENABLED releaseCleanedUp(i))
    /\ [][\A i \in Inst :
            /\ Releasing(i)
                  => /\ loopPc'[i] = "cleanedUp"
                     /\ result' = result /\ mainPc' = mainPc
                     /\ cleanedUp' = cleanedUp /\ outClosed' = outClosed
            /\ cleanedUp[i] => cleanedUp'[i]
            /\ loopPc[i] \in Signalled => loopPc'[i] \in Signalled]_vars

\* C26 witness: the loop has ended after a release that the store
\* reported as failed; the signal is raised and jl.out is closed
C26_SignalledAfterFailedRelease ==
    \E i \in Inst :
        /\ loopPc[i] = "done" /\ cleanedUp[i] /\ outClosed[i]
        /\ hist[i].releases = 1 /\ hist[i].err
        /\ table # {} /\ Row.holder = i

\* the positions of loop once it has left its for loop
Leaving == {"release"} \cup Exited

jobFrame == <<made, now, storeVars, lockVars, chanVars, loopVars, runPc,
              acquiredLock, result, stopVars, crashed, hist>>

\* the caller of RunWithContext inside RunInJobLock
JobCaller == 1

\* uuid.New(): an identity no JobLock has had before
NewIdentity(used) == IF "a" \notin used THEN "a" ELSE "b"

\* RunInJobLock is called
RunInJobLock ==
    /\ job.pc = "idle"
    /\ job' = [job EXCEPT !.pc = "new"]
    /\ UNCHANGED <<jobFrame, mainPc, consPc, waitDone>>

\* the context given to RunInJobLock is cancelled; the waitCtx of the
\* RunWithContext call in progress is done with it
jobCtxDone ==
    /\ job.pc \in {"new", "run", "running"} /\ ~job.ctx
    /\ job' = [job EXCEPT !.ctx = TRUE]
    /\ waitDone' = IF job.pc = "running"
                   THEN [waitDone EXCEPT ![job.lock][JobCaller] = TRUE]
                   ELSE waitDone
    /\ UNCHANGED <<jobFrame, mainPc, consPc>>

\* RunInJobLock: lock, err := NewJobLock(...); if err != nil { return ... }
jobNewJobLock ==
    /\ job.pc = "new"
    /\ \E hostname \in BOOLEAN :
        LET lock == NewJobLock(Options, hostname)
        IN IF lock.err
           THEN job' = [job EXCEPT !.pc = "returned", !.made = lock,
                                   !.result = "createError"]
           ELSE /\ job.used # Inst
                /\ job' = [job EXCEPT !.pc = "run", !.made = lock,
                                      !.lock = NewIdentity(job.used),
                                      !.used = @ \cup {NewIdentity(job.used)}]
    /\ UNCHANGED <<jobFrame, mainPc, consPc, waitDone>>

\* RunInJobLock: lock.RunWithContext(ctx, ...) is called; waitCtx is derived
\* from ctx
jobRunWithContext ==
    /\ job.pc = "run" /\ mainPc[job.lock][JobCaller] = "idle"
    /\ mainPc' = [mainPc EXCEPT ![job.lock][JobCaller] = "select"]
    /\ consPc' = [consPc EXCEPT ![job.lock][JobCaller] = "start"]
    /\ waitDone' = [waitDone EXCEPT ![job.lock][JobCaller] = job.ctx]
    /\ job' = [job EXCEPT !.pc = "running"]
    /\ UNCHANGED jobFrame

\* (a RunInJobLock that returns the error of RunWithContext)
jobSelectReturnsError ==
    /\ job.pc = "running" /\ mainPc[job.lock][JobCaller] = "returned"
    /\ LET err == result[job.lock][JobCaller]
       IN job' = IF job.ctx
                 THEN [job EXCEPT !.pc = "returned", !.err = err,
                                  !.result = "ctxError"]
                 ELSE IF err # "nil"
                 THEN [job EXCEPT !.pc = "returned", !.err = err,
                                  !.result = err]
                 ELSE [job EXCEPT !.pc = "new", !.err = err]
    /\ UNCHANGED <<jobFrame, mainPc, consPc, waitDone>>

\* RunInJobLock: RunWithContext has returned, its error is logged;
\* select { case <-ctx.Done(): return ctx.Err(); default: }
jobSelect ==
    /\ job.pc = "running" /\ mainPc[job.lock][JobCaller] = "returned"
    /\ LET err == result[job.lock][JobCaller]
       IN job' = IF job.ctx
                 THEN [job EXCEPT !.pc = "returned", !.err = err,
                                  !.result = "ctxError"]
                 ELSE [job EXCEPT !.pc = "new", !.err = err]
    /\ UNCHANGED <<jobFrame, mainPc, consPc, waitDone>>

\* RunInJobLock: the fn passed on to RunWithContext returns an error
fnFails(i, c) == fnReturn(i, c) /\ result'[i][c] = "fnError"

\* RunInJobLock in one process: the locks it makes one after the other,
\* their loops and watching goroutines, and a fn that fails when it likes;
\* nothing but the watching goroutine calls Stop
NextJob ==
    \/ Tick
    \/ RunInJobLock
    \/ jobCtxDone
    \/ jobNewJobLock
    \/ jobRunWithContext
    \/ jobSelect
    \/ \E i \in Inst : loop(i)
    \/ \E i \in Inst : runAcquired(i, JobCaller) \/ runDone(i, JobCaller)
    \/ \E i \in Inst : fnFails(i, JobCaller)
    \/ \E i \in Inst : watch(i, JobCaller)

SpecJob == Init /\ [][NextJob]_vars

\* C28: RunInJobLock returns only the error of its context, when that is
\* done, or the error of a failed NewJobLock; when RunWithContext has
\* returned and the context is not done, whatever it returned and whatever
\* became of the lease, RunInJobLock goes on to make a new JobLock, and each
\* JobLock it makes has an identity none had before and starts from the
\* state NewJobLock gives it
C28_RunsUntilContextDone ==
    [][/\ (job.pc # "returned" /\ job'.pc = "returned")
            => \/ job'.result = "ctxError" /\ job.ctx /\ job.pc = "running"
               \/ job'.result = "createError" /\ job.pc = "new"
                     /\ job'.made = NoLock
       /\ (job.pc = "running" /\ job'.pc # "running" /\ ~job.ctx)
            => job'.pc = "new" /\ job'.result = "none"
       /\ job'.lock # job.lock
            => /\ job'.lock \notin job.used
               /\ state[job'.lock] = JobLockStateNone
               /\ loopPc[job'.lock] = "idle" /\ ~once[job'.lock]
               /\ ~abort[job'.lock]
               /\ mainPc[job'.lock][JobCaller] = "idle"]_vars

\* C28 witness: the first lock held the lease and lost it, fn returned an
\* error, and RunInJobLock, its context not done, runs a second lock
C28_SecondRunAfterError ==
    /\ job.pc = "running" /\ job.lock = "b" /\ job.used = {"a", "b"}
    /\ ~job.ctx /\ job.result = "none"
    /\ job.err = "fnError" /\ state["a"] = JobLockStateLost

\* the iteration every instance holds for a row that names it matches the
\* row's
InSync ==
    \A i \in Inst :
        (state[i] = JobLockStateHeld /\ table # {} /\ Row.holder = i)
            => iteration[i] = Row.iteration

\* a step in which a store operation of i changes the table and is
\* reported to i as failed
AppliedFailure(i) ==
    /\ loopPc'[i] # loopPc[i] /\ loopPc[i] # "wait"
    /\ hist'[i].err /\ table' # table

\* C29: as long as no store operation that was reported as failed has
\* changed the store, an instance in state held whose row names it as holder
\* has the row's iteration as its own: every step other than such a failure
\* keeps the two in step (the insert, the steal and every ping included)
C29_IterationInSync ==
    [][(InSync /\ ~\E i \in Inst : AppliedFailure(i)) => InSync']_vars

\* C29 witness: an instance holds the lock after a ping that raised the
\* row's iteration and its own to the same value of at least two
C29_InSyncAfterPing ==
    \E i \in Inst :
        /\ state[i] = JobLockStateHeld /\ loopPc[i] = "wait"
        /\ table # {} /\ Row.holder = i
        /\ Row.iteration >= 2 /\ iteration[i] = Row.iteration
        /\ lastPing[i] = Row.touched /\ ~hist[i].err

\* C30: after a RunWithContext call has ended the loop of the instance
\* exits in the end, with a release attempted when the state is held, the
\* cleanup signal raised and jl.out closed; in the form a finite run
\* refutes: an instance with an ended call that takes no further step has
\* left its loop in this way
C30_LoopExitsAfterRun ==
    \A i \in Inst, c \in Callers :
        (mainPc[i][c] = "returned" /\ ~Alive(i))
            => /\ loopPc[i] = "done" /\ abort[i]
               /\ cleanedUp[i] /\ outClosed[i]

====
